---- MODULE Spec2Model ----
(***************************************************************************)
(* A model of isar_exr.api.graphql_client.GraphqlClient: the session       *)
(* (re)build and the reauthenticate-once retry protocol of query().        *)
(*                                                                         *)
(* A thread runs query() as a stack of frames.  Every frame below the top  *)
(* one is suspended at "return self.query(...)" inside its except handler  *)
(* (line 97 or 116) and holds the exception it caught, so the stack is the *)
(* sequence of caught exceptions.  The execution capability, the token     *)
(* source and connect_sync are external: their outcomes are chosen         *)
(* nondeterministically.                                                   *)
(***************************************************************************)
EXTENDS Integers, Sequences, FiniteSets, TLC

\* ---------------------------------------------------------------- bounds
MaxCalls == 2          \* top-level calls of query() per thread
MaxDepth == 3          \* frames of query() a thread may stack up

\* ------------------------------------------------------------- constants
StaleAuthCode == 302

Threads   == {1, 2}
Instances == {1, 2}
Queries   == {"q1", "q2"}
Params    == {"p1", "p2"}
Responses == {"r1", "r2"}
ServerCodes == {StaleAuthCode, 401, 403}

\* The failure kinds of session.execute, one per except clause of query();
\* "server_error" carries a code.
PlainKinds ==
    {"query_error", "protocol_error", "query_transport_error",
     "transport_closed", "already_connected", "read_timeout",
     "connect_timeout", "unknown_error"}

\* An outcome is a record; id is the identity of the raised exception (or
\* returned mapping): the number of the execution attempt that produced it.
Failure(k, c) == [kind |-> k, code |-> c, data |-> "none", id |-> 0]
Response(r)   == [kind |-> "ok", code |-> 0, data |-> r, id |-> 0]
NoOutcome     == [kind |-> "none", code |-> 0, data |-> "none", id |-> 0]

ExecuteOutcomes ==
    {Response(r) : r \in Responses}
        \cup {Failure(k, 0) : k \in PlainKinds}
        \cup {Failure("server_error", c) : c \in ServerCodes}

\* What a concurrent run draws from: one retry-triggering kind of each
\* sort, one non-retried kind, one response.
FewOutcomes ==
    {Response("r1"), Failure("protocol_error", 0),
     Failure("server_error", StaleAuthCode), Failure("read_timeout", 0)}

VARIABLES
    scope,            \* the configuration of the run, fixed by Init
    reauthenticated,  \* instance -> self._reauthenticated
    flagBy,           \* instance -> the thread that last wrote the flag
    client,           \* instance -> identity of self.client
    session,          \* instance -> the client self.session belongs to
    document,         \* instance -> self.document
    tokens,           \* instance -> calls of get_access_token so far
    builds,           \* instance -> session builds started so far
    connected,        \* instance -> clients whose session is connected
    lock,             \* instance -> thread holding the caller's lock, 0: free
    pc,               \* thread -> position in query()
    frames,           \* thread -> caught exceptions of the suspended frames
    args,             \* thread -> (query, query_parameters) of the top frame
    pending,          \* thread -> the value or exception on its way out
    trace,            \* thread -> events of the current top-level call
    calls,            \* thread -> top-level calls started
    result,           \* thread -> what the last top-level call delivered
    entry,            \* thread -> the instance as it was at the call's start
    exit              \* thread -> the instance as the call left it

vars == <<scope, reauthenticated, flagBy, client, session, document, tokens,
          builds, connected, lock, pc, frames, args, pending, trace, calls,
          result, entry, exit>>

instVars == <<reauthenticated, flagBy, client, session, document, tokens,
              builds, connected>>

Self(t) == scope.inst[t]

\* ------------------------------------------------------------ trace events
\* <<"execute", query, params, session, outcome>>
\* <<"flag", value read, thread that wrote it>>
\* <<"refresh", "start" | "done" | "failed">>
\* <<"log", level, message>>
IsExecute(ev) == ev[1] = "execute"
IsRefreshStart(ev) == ev[1] = "refresh" /\ ev[2] = "start"
IsRefreshDone(ev) == ev[1] = "refresh" /\ ev[2] = "done"
IsLog(ev) == ev[1] = "log"

\* Positions in the trace of the current call: its execution attempts, the
\* calls of _refresh_session, and those that ran to the end.
ExecuteAt(t) == {k \in DOMAIN trace[t] : IsExecute(trace[t][k])}
RefreshAt(t) == {k \in DOMAIN trace[t] : IsRefreshStart(trace[t][k])}
RebuiltAt(t) == {k \in DOMAIN trace[t] : IsRefreshDone(trace[t][k])}

Executes(t)  == Cardinality(ExecuteAt(t))
Refreshes(t) == Cardinality(RefreshAt(t))
Rebuilt(t)   == Cardinality(RebuiltAt(t))

\* ------------------------------------------------------------ classification
\* Lines 87 and 106-107: the two failures that may lead to a retry.
RetryAnyServerError(e) ==
    e.kind = "protocol_error" \/ e.kind = "server_error"

IsRetryTrigger(e) ==
    \/ e.kind = "protocol_error"
    \/ e.kind = "server_error" /\ e.code = StaleAuthCode

\* Lines 88 and 108: "if self._reauthenticated: ... raise / else: retry".
RetryAlways(flag) == TRUE

RetryNever(flag) == FALSE

RetryAllowed(flag) == ~flag

\* Lines 96 and 115: self._reauthenticated = True.
FlagLeftUnset == FALSE

FlagAfterRefresh == TRUE

\* Line 133: self._reauthenticated = False.
FlagKept(flag) == flag

FlagAfterFinally(flag) == FALSE

\* Line 25: the flag is an attribute of the instance.
FlagOfClass(i) == 1

FlagOwner(i) == i

Flag(i) == reauthenticated[FlagOwner(i)]

\* What a caller can see of instance i.
Snapshot(i) ==
    [flag |-> Flag(i), client |-> client[i], session |-> session[i],
     document |-> document[i], tokens |-> tokens[i]]

\* Lines 97 and 116: the same arguments are passed on.
OtherOf(x, S) == CHOOSE y \in S : y # x

RetryArgsChanged(a) ==
    [query |-> a.query, params |-> OtherOf(a.params, Params)]

RetryArgs(a) == [query |-> a.query, params |-> a.params]

\* Lines 97 and 116: the suspended frame delivers what the inner call
\* delivered, a return value or an exception, not the exception it caught.
RetryOutcomeCaught(caught, inner) == caught

RetryOutcome(caught, inner) == inner

\* Lines 80-81: the response of session.execute is returned as it is.
ReturnedEmpty(response) == [response EXCEPT !.data = "none"]

Returned(response) == response

\* The message an except clause logs before it raises the failure again
\* (lines 83-131).
LogMessage(e) ==
    CASE e.kind = "query_error" -> "query"
      [] e.kind = "protocol_error" -> "protocol_after_reauthentication"
      [] e.kind = "query_transport_error" -> "server_returned_error"
      [] e.kind = "transport_closed" -> "connection_closed"
      [] e.kind = "server_error" /\ e.code = StaleAuthCode ->
             "server_after_reauthentication"
      [] e.kind = "server_error" -> "server_error"
      [] e.kind = "already_connected" -> "already_connected"
      [] e.kind = "read_timeout" -> "read_timeout"
      [] e.kind = "connect_timeout" -> "connect_timeout"
      [] OTHER -> "unknown"

Log(t, level, message) == Append(trace[t], <<"log", level, message>>)

\* Line 31 (called from lines 41 and 51): every session build fetches a
\* token of its own.
TokenReused(n) == n

TokensAfterFetch(n) == n + 1

\* The document _initialize_session parsed from the schema file (lines
\* 55-56), with the number of times the file has been read.
ParsedSchema == [ast |-> "schema", reads |-> 1]

\* Line 46: _refresh_session builds the schema from self.document; it does
\* not open the file.
SchemaReloaded(d) == [d EXCEPT !.reads = @ + 1]

SchemaForRefresh(d) == d

\* Line 48: what connect_sync returned becomes self.session.
SessionNotAssigned(old, new) == old

SessionAfterConnect(old, new) == new

\* Line 80: an attempt runs on what self.session names at that moment.
ExecuteOnEntrySession(t) == entry[t].session

ExecuteOn(t) == session[Self(t)]

\* The connected sessions the instance still refers to, as self.session or
\* as the session of self.client; a session it has dropped is not torn
\* down, only discarded.
Live(i) == {c \in connected[i] : c = session[i] \/ c = client[i]}

\* Lines 32-34: a failure of get_access_token is logged and raised again:
\* control leaves _refresh_session and the except clause of query() for the
\* finally clause.
TokenFailureSwallowed == "refresh_client"

AfterTokenFailure == "finally"

\* ------------------------------------------------------------------ actions
\* query() is entered by a caller (lines 67-79).  Under scope.locked the
\* caller holds a lock on the instance for the whole call.
QueryCall(t) ==
    /\ t \in scope.threads
    /\ pc[t] \in (IF scope.repeat THEN {"idle", "done"} ELSE {"idle"})
    /\ calls[t] < MaxCalls
    /\ scope.locked => lock[Self(t)] = 0
    /\ \E q \in scope.queries, p \in scope.params :
           args' = [args EXCEPT ![t] = [query |-> q, params |-> p]]
    /\ lock' = IF scope.locked THEN [lock EXCEPT ![Self(t)] = t] ELSE lock
    /\ pc' = [pc EXCEPT ![t] = "try"]
    /\ frames' = [frames EXCEPT ![t] = <<>>]
    /\ pending' = [pending EXCEPT ![t] = NoOutcome]
    /\ trace' = [trace EXCEPT ![t] = <<>>]
    /\ calls' = [calls EXCEPT ![t] = @ + 1]
    /\ result' = [result EXCEPT ![t] = NoOutcome]
    /\ entry' = [entry EXCEPT ![t] = Snapshot(Self(t))]
    /\ UNCHANGED <<scope, instVars, exit>>

\* Line 80: self.session.execute(query, query_parameters) returns a
\* response or raises; line 81 returns the response.
SessionExecute(t) ==
    /\ pc[t] = "try"
    /\ \E o \in scope.outcomes :
          LET out == [o EXCEPT !.id = Executes(t) + 1] IN
          /\ trace' = [trace EXCEPT ![t] =
                 Append(@, <<"execute", args[t].query, args[t].params,
                             ExecuteOn(t), out>>)]
          /\ pending' = [pending EXCEPT ![t] =
                 IF out.kind = "ok" THEN Returned(out) ELSE out]
          /\ pc' = [pc EXCEPT ![t] =
                 IF out.kind = "ok" THEN "finally" ELSE "except"]
    /\ UNCHANGED <<scope, instVars, lock, frames, args, calls, result,
                   entry, exit>>

\* Lines 82-131: the except clause that matches the failure.  A protocol
\* error or a 302 server error reads the flag: set, it is logged and raised
\* again; clear, _refresh_session is called (lines 95 and 114).  Every
\* other failure is logged and raised again.  The code does not bound the recursion; the model
\* stops a thread that would stack more than MaxDepth frames.
ExceptHandler(t) ==
    LET e == pending[t]
        f == FlagOwner(Self(t))
        flag == Flag(Self(t))
        read == Append(trace[t], <<"flag", flag, flagBy[f]>>)
    IN
    /\ pc[t] = "except"
    /\ IF IsRetryTrigger(e)
       THEN IF RetryAllowed(flag)
            THEN /\ Len(frames[t]) + 1 < MaxDepth
                 /\ trace' = [trace EXCEPT ![t] =
                        Append(read, <<"refresh", "start">>)]
                 /\ builds' = [builds EXCEPT ![Self(t)] = @ + 1]
                 /\ pc' = [pc EXCEPT ![t] = "refresh_token"]
            ELSE /\ trace' = [trace EXCEPT ![t] =
                        Append(read, <<"log", "error", LogMessage(e)>>)]
                 /\ pc' = [pc EXCEPT ![t] = "finally"]
                 /\ UNCHANGED builds
       ELSE /\ trace' = [trace EXCEPT ![t] =
                   Log(t, "error", LogMessage(e))]
            /\ pc' = [pc EXCEPT ![t] = "finally"]
            /\ UNCHANGED builds
    /\ UNCHANGED <<scope, reauthenticated, flagBy, client, session, document,
                   tokens, connected, lock, frames, args, pending, calls,
                   result, entry, exit>>

\* Lines 29-38 (called from line 41): get_access_token() returns a token or
\* raises; a failure is logged as critical and raised again, out of the
\* except clause of query() that called _refresh_session.
GetUpdatedAuthHeader(t) ==
    /\ pc[t] = "refresh_token"
    /\ tokens' = [tokens EXCEPT ![Self(t)] = TokensAfterFetch(@)]
    /\ \E ok \in BOOLEAN :
          IF ok
          THEN /\ pc' = [pc EXCEPT ![t] = "refresh_client"]
               /\ UNCHANGED <<trace, pending>>
          ELSE /\ pc' = [pc EXCEPT ![t] = AfterTokenFailure]
               /\ trace' = [trace EXCEPT ![t] =
                      Append(Log(t, "critical", "access_token"),
                             <<"refresh", "failed">>)]
               /\ pending' = [pending EXCEPT ![t] =
                      Failure("credential_error", 0)]
    /\ UNCHANGED <<scope, reauthenticated, flagBy, client, session, document,
                   builds, connected, lock, frames, args, calls, result,
                   entry, exit>>

\* Lines 42-47: the transport, the schema and the Client are built and
\* self.client is assigned; a failure of a constructor leaves self.client.
RefreshClient(t) ==
    /\ pc[t] = "refresh_client"
    /\ document' = [document EXCEPT ![Self(t)] = SchemaForRefresh(@)]
    /\ \E ok \in BOOLEAN :
          IF ok
          THEN /\ client' = [client EXCEPT ![Self(t)] = @ + 1]
               /\ pc' = [pc EXCEPT ![t] = "refresh_connect"]
               /\ UNCHANGED <<trace, pending>>
          ELSE /\ pc' = [pc EXCEPT ![t] = "finally"]
               /\ trace' = [trace EXCEPT ![t] =
                      Append(@, <<"refresh", "failed">>)]
               /\ pending' = [pending EXCEPT ![t] = Failure("build_error", 0)]
               /\ UNCHANGED client
    /\ UNCHANGED <<scope, reauthenticated, flagBy, session, tokens, builds,
                   connected, lock, frames, args, calls, result, entry, exit>>

\* Line 48: self.session = self.client.connect_sync().  connect_sync
\* returns the session of the client self.client names now, or raises, and
\* then self.session is not assigned.
RefreshConnect(t) ==
    /\ pc[t] = "refresh_connect"
    /\ \E ok \in BOOLEAN :
          IF ok
          THEN /\ connected' = [connected EXCEPT ![Self(t)] =
                      @ \cup {client[Self(t)]}]
               /\ session' = [session EXCEPT ![Self(t)] =
                      SessionAfterConnect(@, client[Self(t)])]
               /\ pc' = [pc EXCEPT ![t] = "set_flag"]
               /\ trace' = [trace EXCEPT ![t] =
                      Append(@, <<"refresh", "done">>)]
               /\ UNCHANGED pending
          ELSE /\ pc' = [pc EXCEPT ![t] = "finally"]
               /\ trace' = [trace EXCEPT ![t] =
                      Append(@, <<"refresh", "failed">>)]
               /\ pending' = [pending EXCEPT ![t] =
                      Failure("connect_error", 0)]
               /\ UNCHANGED <<session, connected>>
    /\ UNCHANGED <<scope, reauthenticated, flagBy, client, document, tokens,
                   builds, lock, frames, args, calls, result, entry, exit>>

\* Lines 96-97 and 115-116: the flag is set and query() calls itself; the
\* calling frame stays suspended in its except clause.
RetryQuery(t) ==
    /\ pc[t] = "set_flag"
    /\ reauthenticated' =
           [reauthenticated EXCEPT ![FlagOwner(Self(t))] = FlagAfterRefresh]
    /\ flagBy' = [flagBy EXCEPT ![FlagOwner(Self(t))] = t]
    /\ frames' = [frames EXCEPT ![t] = Append(@, pending[t])]
    /\ args' = [args EXCEPT ![t] = RetryArgs(@)]
    /\ pending' = [pending EXCEPT ![t] = NoOutcome]
    /\ pc' = [pc EXCEPT ![t] = "try"]
    /\ UNCHANGED <<scope, client, session, document, tokens, builds,
                   connected, lock, trace, calls, result, entry, exit>>

\* Lines 132-133: the finally clause of the top frame clears the flag.  The
\* frame then hands its value or exception to the frame below, which is in
\* its own except clause and reaches its finally clause in turn, or, as
\* the outermost frame, to the caller.
Finally(t) ==
    /\ pc[t] = "finally"
    /\ reauthenticated' =
           [reauthenticated EXCEPT ![FlagOwner(Self(t))] = FlagAfterFinally(@)]
    /\ flagBy' = [flagBy EXCEPT ![FlagOwner(Self(t))] = t]
    /\ IF frames[t] = <<>>
       THEN /\ pc' = [pc EXCEPT ![t] = "done"]
            /\ result' = [result EXCEPT ![t] = pending[t]]
            /\ exit' = [exit EXCEPT ![t] =
                   [Snapshot(Self(t)) EXCEPT
                       !.flag = reauthenticated'[FlagOwner(Self(t))]]]
            /\ lock' = IF scope.locked
                       THEN [lock EXCEPT ![Self(t)] = 0] ELSE lock
            /\ UNCHANGED <<frames, pending>>
       ELSE /\ frames' = [frames EXCEPT ![t] = SubSeq(@, 1, Len(@) - 1)]
            /\ pending' = [pending EXCEPT ![t] =
                   RetryOutcome(frames[t][Len(frames[t])], @)]
            /\ UNCHANGED <<pc, result, lock, exit>>
    /\ UNCHANGED <<scope, client, session, document, tokens, builds,
                   connected, args, trace, calls, entry>>

Next ==
    \E t \in Threads :
        \/ QueryCall(t)
        \/ SessionExecute(t)
        \/ ExceptHandler(t)
        \/ GetUpdatedAuthHeader(t)
        \/ RefreshClient(t)
        \/ RefreshConnect(t)
        \/ RetryQuery(t)
        \/ Finally(t)

\* --------------------------------------------------------- initial states
\* __init__ (lines 22-27) has run for every instance: the flag is clear and
\* _initialize_session (lines 50-65) has fetched one token, parsed the
\* schema file and connected the first client.
Constructed ==
    /\ reauthenticated = [i \in Instances |-> FALSE]
    /\ flagBy = [i \in Instances |-> 0]
    /\ client = [i \in Instances |-> 1]
    /\ session = [i \in Instances |-> 1]
    /\ document = [i \in Instances |-> ParsedSchema]
    /\ tokens = [i \in Instances |-> 1]
    /\ builds = [i \in Instances |-> 1]
    /\ connected = [i \in Instances |-> {1}]
    /\ lock = [i \in Instances |-> 0]
    /\ pc = [t \in Threads |-> "idle"]
    /\ frames = [t \in Threads |-> <<>>]
    /\ args = [t \in Threads |-> [query |-> "q1", params |-> "p1"]]
    /\ pending = [t \in Threads |-> NoOutcome]
    /\ trace = [t \in Threads |-> <<>>]
    /\ calls = [t \in Threads |-> 0]
    /\ result = [t \in Threads |-> NoOutcome]
    /\ entry = [t \in Threads |-> Snapshot(1)]
    /\ exit = [t \in Threads |-> Snapshot(1)]

\* One thread, one instance.
Init ==
    /\ scope = [threads |-> {1}, inst |-> [t \in Threads |-> 1],
                locked |-> FALSE, queries |-> Queries, params |-> Params,
                outcomes |-> ExecuteOutcomes, repeat |-> TRUE]
    /\ Constructed

Spec == Init /\ [][Next]_vars

\* A step of a call under way.  query() is synchronous: once entered, the
\* thread goes on as long as session.execute, get_access_token and
\* connect_sync each return or raise; the caller need not call again.
Step(t) ==
    \/ SessionExecute(t)
    \/ ExceptHandler(t)
    \/ GetUpdatedAuthHeader(t)
    \/ RefreshClient(t)
    \/ RefreshConnect(t)
    \/ RetryQuery(t)
    \/ Finally(t)

SpecFair == Spec /\ \A t \in Threads : WF_vars(Step(t))

\* Two threads on one instance, no lock; each thread makes one top-level
\* call, and the two calls overlap in every way.
InitShared ==
    /\ scope = [threads |-> Threads, inst |-> [t \in Threads |-> 1],
                locked |-> FALSE, queries |-> {"q1"}, params |-> {"p1"},
                outcomes |-> FewOutcomes, repeat |-> FALSE]
    /\ Constructed

SpecShared == InitShared /\ [][Next]_vars

\* Two threads, either each on an instance of its own or on one instance
\* under the caller's lock.
InitIsolated ==
    /\ \/ scope = [threads |-> Threads, inst |-> [t \in Threads |-> t],
                   locked |-> FALSE, queries |-> {"q1"}, params |-> {"p1"},
                   outcomes |-> FewOutcomes, repeat |-> TRUE]
       \/ scope = [threads |-> Threads, inst |-> [t \in Threads |-> 1],
                   locked |-> TRUE, queries |-> {"q1"}, params |-> {"p1"},
                   outcomes |-> FewOutcomes, repeat |-> TRUE]
    /\ Constructed

SpecIsolated == InitIsolated /\ [][Next]_vars

\* ------------------------------------------------------------ the claims
\* What the claims read off a call's trace.
Attempts(t) == SelectSeq(trace[t], IsExecute)

AttemptQuery(ev)   == ev[2]
AttemptParams(ev)  == ev[3]
AttemptSession(ev) == ev[4]
AttemptOutcome(ev) == ev[5]

Returns(t) == pc[t] = "done"

\* The failure kinds as the claims list them, written out (not through the
\* model's classification).
StaleAuth(o) == o.kind = "server_error" /\ o.code = 302

RetryKind(o) == o.kind = "protocol_error" \/ StaleAuth(o)

TerminalKind(o) ==
    \/ o.kind \in {"query_error", "query_transport_error", "transport_closed",
                   "already_connected", "connect_timeout", "read_timeout",
                   "unknown_error"}
    \/ o.kind = "server_error" /\ o.code # 302

FirstAttemptRetryKind(t) ==
    /\ Len(Attempts(t)) >= 1
    /\ RetryKind(AttemptOutcome(Attempts(t)[1]))

\* C1: within one top-level call of query, _refresh_session is invoked at
\* most once and session.execute at most twice, whatever the outcomes of the
\* execution capability are.
C1_OneRefreshTwoExecutes ==
    \A t \in scope.threads : Refreshes(t) <= 1 /\ Executes(t) <= 2

\* A call that has returned after a protocol error followed, on the retry,
\* by a 302 server error.
C1_Witness ==
    /\ Returns(1)
    /\ Executes(1) = 2
    /\ Refreshes(1) = 1
    /\ AttemptOutcome(Attempts(1)[1]).kind = "protocol_error"
    /\ StaleAuth(AttemptOutcome(Attempts(1)[2]))

\* C2: whenever a top-level call has returned control to the caller, by a
\* response or by an exception, _reauthenticated is false; and every
\* top-level call found the flag false when it started.
C2_FlagFalseOnReturn ==
    \A t \in scope.threads :
        /\ pc[t] \in {"idle", "done"} => ~Flag(Self(t))
        /\ Returns(t) => ~exit[t].flag
        /\ ~entry[t].flag

\* The second call of a thread has returned with the failure of the session
\* rebuild itself (connect_sync raised), after a first call that retried.
C2_Witness ==
    /\ Returns(1)
    /\ calls[1] = 2
    /\ entry[1].client = 2
    /\ result[1].kind = "connect_error"
    /\ Refreshes(1) = 1

\* C3 as stated: for a call whose first attempt failed with a protocol error
\* or a 302 server error, once it returns exactly one session rebuild has
\* occurred and the same query and parameters have been executed a second
\* time.
C3_AlwaysRebuiltAndRetried ==
    \A t \in scope.threads :
        (Returns(t) /\ FirstAttemptRetryKind(t)) =>
            /\ Rebuilt(t) = 1
            /\ Executes(t) = 2
            /\ AttemptQuery(Attempts(t)[2]) = AttemptQuery(Attempts(t)[1])
            /\ AttemptParams(Attempts(t)[2]) = AttemptParams(Attempts(t)[1])

\* C3 as amended: for such a call exactly one session rebuild is started.
\* If the rebuild completes, the same query and parameters are executed
\* exactly once more, after the rebuild, and what the caller gets is that
\* second attempt's outcome; if the rebuild fails, no second attempt is
\* made and what the caller gets is the rebuild's failure.
C3_RebuiltThenRetriedVerbatim ==
    \A t \in scope.threads :
        (Returns(t) /\ FirstAttemptRetryKind(t)) =>
            /\ Refreshes(t) = 1
            /\ IF Rebuilt(t) = 1
               THEN /\ Executes(t) = 2
                    /\ AttemptQuery(Attempts(t)[2])
                           = AttemptQuery(Attempts(t)[1])
                    /\ AttemptParams(Attempts(t)[2])
                           = AttemptParams(Attempts(t)[1])
                    /\ \E r, k \in DOMAIN trace[t] :
                           /\ IsRefreshDone(trace[t][r])
                           /\ IsExecute(trace[t][k])
                           /\ r < k
                    /\ result[t] = AttemptOutcome(Attempts(t)[2])
               ELSE /\ Rebuilt(t) = 0
                    /\ Executes(t) = 1
                    /\ result[t].kind \in
                           {"credential_error", "build_error", "connect_error"}

\* A call has returned a failure after a 302 server error, a completed
\* rebuild and a retry of the same query and parameters.
C3_Witness ==
    /\ Returns(1)
    /\ StaleAuth(AttemptOutcome(Attempts(1)[1]))
    /\ Rebuilt(1) = 1
    /\ Executes(1) = 2
    /\ AttemptParams(Attempts(1)[2]) = "p2"
    /\ AttemptQuery(Attempts(1)[2]) = "q2"
    /\ result[1].kind = "query_error"

\* C4: after an attempt, first or retried, fails with a kind that is neither
\* a protocol error nor a 302 server error, no session rebuild and no
\* further execution attempt follows, and the call raises that very failure.
C4_TerminalFailureRaisedAsIs ==
    \A t \in scope.threads :
        \A k \in ExecuteAt(t) :
            LET o == AttemptOutcome(trace[t][k]) IN
            TerminalKind(o) =>
                /\ \A j \in DOMAIN trace[t] : j > k => IsLog(trace[t][j])
                /\ pc[t] \in {"except", "finally", "done"}
                /\ pc[t] \in {"except", "finally"} => pending[t] = o
                /\ Returns(t) => result[t] = o

\* A retried attempt failed with a 401 server error, and the call has
\* returned.
C4_Witness ==
    /\ Returns(1)
    /\ Executes(1) = 2
    /\ AttemptOutcome(Attempts(1)[2]).kind = "server_error"
    /\ AttemptOutcome(Attempts(1)[2]).code = 401
    /\ result[1].code = 401

\* C5: when the retried attempt fails with a protocol error or a 302 server
\* error, the flag is read as true, the failure is logged and raised, and
\* neither a third attempt nor a second rebuild follows.
C5_NoThirdTry ==
    \A t \in scope.threads :
        \A k \in ExecuteAt(t) :
            LET o == AttemptOutcome(trace[t][k]) IN
            (o.id = 2 /\ RetryKind(o)) =>
                /\ Executes(t) = 2
                /\ Refreshes(t) = 1
                /\ pc[t] \in {"except", "finally", "done"}
                /\ pc[t] # "except" =>
                       /\ Len(trace[t]) = k + 2
                       /\ trace[t][k + 1][1] = "flag"
                       /\ trace[t][k + 1][2] = TRUE
                       /\ trace[t][k + 1][3] = t
                       /\ IsLog(trace[t][k + 2])
                /\ Returns(t) => result[t] = o

\* The first attempt failed with a 302 server error, the retried one with a
\* protocol error, and the call has returned.
C5_Witness ==
    /\ Returns(1)
    /\ Executes(1) = 2
    /\ StaleAuth(AttemptOutcome(Attempts(1)[1]))
    /\ AttemptOutcome(Attempts(1)[2]).kind = "protocol_error"
    /\ result[1].kind = "protocol_error"

\* C6: when a retry took place, the caller gets the outcome of the second
\* attempt: its response, or its failure, never the first attempt's.
C6_SecondOutcomeDelivered ==
    \A t \in scope.threads :
        (Returns(t) /\ Executes(t) = 2) =>
            /\ result[t] = AttemptOutcome(Attempts(t)[2])
            /\ result[t].id = 2
            /\ result[t] # AttemptOutcome(Attempts(t)[1])

\* First attempt 302, retry a 403 server error: the caller got the 403.
C6_Witness ==
    /\ Returns(1)
    /\ Executes(1) = 2
    /\ StaleAuth(AttemptOutcome(Attempts(1)[1]))
    /\ result[1].kind = "server_error"
    /\ result[1].code = 403

\* C7: a call whose first attempt succeeds returns the response of
\* session.execute as it is, makes that one attempt and no rebuild, starts
\* and ends with the flag false, and leaves session, client, schema document
\* and the number of token acquisitions as they were.
C7_FirstSuccessChangesNothing ==
    \A t \in scope.threads :
        (Returns(t) /\ AttemptOutcome(Attempts(t)[1]).kind = "ok") =>
            /\ result[t] = AttemptOutcome(Attempts(t)[1])
            /\ result[t].data \in Responses
            /\ Len(trace[t]) = 1
            /\ ~entry[t].flag
            /\ ~exit[t].flag
            /\ exit[t] = entry[t]
            /\ Snapshot(Self(t)) = entry[t]

\* The second call of a thread, made after a call that rebuilt the session,
\* has returned the response of its first attempt.
C7_Witness ==
    /\ Returns(1)
    /\ calls[1] = 2
    /\ entry[1].session = 2
    /\ Len(trace[1]) = 1
    /\ result[1].kind = "ok"
    /\ result[1].data = "r2"

\* C8: two threads in query on one instance, no lock.  A call whose first
\* attempt fails with a protocol error or a 302 server error is failed with
\* no rebuild and no retry only when it read the flag as true, and the flag
\* it read was set by the other thread's call, which had rebuilt the session
\* for its own retry; the caller gets the first attempt's failure.
C8_FailedUnretriedOnOthersFlag ==
    \A t \in scope.threads :
        (/\ Returns(t)
         /\ FirstAttemptRetryKind(t)
         /\ Refreshes(t) = 0) =>
            /\ Executes(t) = 1
            /\ trace[t][2][1] = "flag"
            /\ trace[t][2][2] = TRUE
            /\ trace[t][2][3] \in scope.threads \ {t}
            /\ Rebuilt(trace[t][2][3]) >= 1
            /\ result[t] = AttemptOutcome(Attempts(t)[1])

\* Thread 2's call has returned its first attempt's protocol error with no
\* rebuild, having read the flag thread 1 set, while thread 1's retry is
\* still in flight.
C8_Witness ==
    /\ Returns(2)
    /\ Executes(2) = 1
    /\ Refreshes(2) = 0
    /\ result[2].kind = "protocol_error"
    /\ trace[2][2][1] = "flag"
    /\ trace[2][2][2] = TRUE
    /\ trace[2][2][3] = 1
    /\ pc[1] = "try"
    /\ frames[1] # <<>>

\* C9: with an instance per thread, or with one instance and a lock held
\* for the whole of query, every top-level call makes at most one session
\* rebuild and at most two execution attempts and leaves the flag of its
\* instance false when it returns, however the threads interleave.
C9_IsolatedCallsKeepTheBound ==
    \A t \in scope.threads :
        /\ Refreshes(t) <= 1
        /\ Executes(t) <= 2
        /\ Returns(t) => ~exit[t].flag
        /\ pc[t] # "idle" => ~entry[t].flag

\* Each thread on its own instance: thread 1 has returned from a call that
\* retried while thread 2's retry is in flight with the flag of its
\* instance still set.
C9_Witness ==
    /\ scope.inst[2] = 2
    /\ Returns(1)
    /\ Executes(1) = 2
    /\ ~Flag(1)
    /\ pc[2] = "try"
    /\ frames[2] # <<>>
    /\ Flag(2)

\* C10: after a call that rebuilt the session, whether the rebuild completed
\* or failed at any step, client and session are both the ones from before
\* the call or both new: the session belongs to the client.
C10_ClientAndSessionChangeTogether ==
    \A t \in scope.threads :
        Returns(t) =>
            \/ /\ exit[t].client = entry[t].client
               /\ exit[t].session = entry[t].session
            \/ /\ exit[t].client # entry[t].client
               /\ exit[t].session # entry[t].session
               /\ exit[t].session = exit[t].client

\* connect_sync raised during a call's rebuild: the call has returned with
\* a new client and the session of the old one.
C10_Witness ==
    /\ Returns(1)
    /\ result[1].kind = "connect_error"
    /\ exit[1].client # entry[1].client
    /\ exit[1].session = entry[1].session

\* C11: when get_access_token fails during the rebuild that a first-attempt
\* protocol error or 302 server error started, the credential failure goes
\* to the caller of query: no second execution attempt is made, the rebuild
\* is not tried again, session and client stay the ones from before the
\* call, and the flag is false when the call returns.
IsCritical(ev) == ev[1] = "log" /\ ev[2] = "critical"

C11_CredentialFailurePropagates ==
    \A t \in scope.threads :
        (\E k \in DOMAIN trace[t] : IsCritical(trace[t][k])) =>
            /\ pc[t] \in {"finally", "done"}
            /\ Executes(t) = 1
            /\ Refreshes(t) = 1
            /\ Rebuilt(t) = 0
            /\ client[Self(t)] = entry[t].client
            /\ session[Self(t)] = entry[t].session
            /\ pc[t] = "finally" =>
                   pending[t].kind = "credential_error" /\ frames[t] = <<>>
            /\ Returns(t) =>
                   /\ result[t].kind = "credential_error"
                   /\ exit[t].client = entry[t].client
                   /\ exit[t].session = entry[t].session
                   /\ ~exit[t].flag

\* A call whose first attempt got a 302 server error has returned the
\* credential failure of its rebuild.
C11_Witness ==
    /\ Returns(1)
    /\ StaleAuth(AttemptOutcome(Attempts(1)[1]))
    /\ result[1].kind = "credential_error"
    /\ tokens[1] = entry[1].tokens + 1

\* C12: every failure a top-level call raises to its caller has been logged,
\* at error or critical severity, before it leaves query.
C12_EveryFailureLogged ==
    \A t \in scope.threads :
        (Returns(t) /\ result[t].kind # "ok") =>
            \E k \in DOMAIN trace[t] :
                /\ IsLog(trace[t][k])
                /\ trace[t][k][2] \in {"error", "critical"}

\* connect_sync raised during the rebuild and the call has returned that
\* failure with no log entry written during the call.
C12_Witness ==
    /\ Returns(1)
    /\ result[1].kind = "connect_error"
    /\ \A k \in DOMAIN trace[1] : ~IsLog(trace[1][k])

\* C13: every session build, the constructor's and every rebuild, fetches
\* one token: the number of tokens fetched is the number of builds started
\* (less a build that has been called and has not reached get_access_token
\* yet), and within a call tokens are fetched by its rebuilds only.
AboutToFetch(t) == IF pc[t] = "refresh_token" THEN 1 ELSE 0

C13_OneTokenPerBuild ==
    /\ \A i \in Instances :
           tokens[i] + Cardinality({t \in scope.threads :
                                       Self(t) = i /\ pc[t] = "refresh_token"})
               = builds[i]
    /\ \A t \in scope.threads :
           tokens[Self(t)] - entry[t].tokens = Refreshes(t) - AboutToFetch(t)

\* Two calls, each with a rebuild, have returned: three builds with the
\* constructor's, three tokens.
C13_Witness ==
    /\ Returns(1)
    /\ calls[1] = 2
    /\ Refreshes(1) = 1
    /\ builds[1] = 3
    /\ tokens[1] = 3

\* C14: the schema file is read and parsed once, by the constructor; a
\* rebuild uses that document and no operation changes it.
C14_SchemaLoadedOnce ==
    /\ \A i \in Instances :
           document[i].ast = "schema" /\ document[i].reads = 1
    /\ \A t \in scope.threads :
           /\ entry[t].document = document[Self(t)]
           /\ exit[t].document = document[Self(t)]

\* The second call of a thread has completed a rebuild, after a first call
\* that completed one too.
C14_Witness ==
    /\ Returns(1)
    /\ calls[1] = 2
    /\ entry[1].session = 2
    /\ Rebuilt(1) = 1
    /\ exit[1].session = 3
    /\ exit[1].document.reads = 1

\* C15: at any time after construction the instance refers to exactly one
\* connected session, and it is self.session; a rebuild replaces the old
\* session by the new one.
C15_OneLiveSession ==
    \A i \in Instances :
        /\ Cardinality(Live(i)) = 1
        /\ session[i] \in Live(i)

\* Right after a reauthentication: the new session is connected and is the
\* only one the instance refers to; the old one is connected and dropped.
C15_Witness ==
    /\ pc[1] = "set_flag"
    /\ connected[1] = {1, 2}
    /\ session[1] = 2
    /\ Live(1) = {2}

\* C16: with one thread, and session.execute, get_access_token and
\* connect_sync each returning or raising, every top-level call of query
\* comes to an end, by a response or by a failure, and never stacks more
\* than two frames of query.
Depth(t) == IF pc[t] \in {"idle", "done"} THEN 0 ELSE Len(frames[t]) + 1

C16_QueryTerminates ==
    /\ [](\A t \in Threads : Depth(t) <= 2)
    /\ \A t \in Threads : (pc[t] \notin {"idle", "done"}) ~> (pc[t] = "done")

\* The second call of a thread has come to an end with the response of its
\* retried attempt.
C16_Witness ==
    /\ Returns(1)
    /\ calls[1] = 2
    /\ Executes(1) = 2
    /\ result[1].kind = "ok"
    /\ frames[1] = <<>>

\* C17: every execution attempt runs on the session the instance has at
\* that moment: the first attempt on the one the call found, the retried
\* attempt on the one the call's rebuild produced.  The session changes only
\* by a rebuild that ran to the end, and the rebuilt session is the one the
\* call leaves behind and the next call finds, whether the retry succeeded
\* or failed.
C17_AttemptsUseCurrentSession ==
    \A t \in scope.threads :
        /\ Executes(t) >= 1 =>
               AttemptSession(Attempts(t)[1]) = entry[t].session
        /\ Executes(t) = 2 =>
               /\ Rebuilt(t) = 1
               /\ AttemptSession(Attempts(t)[2]) = session[Self(t)]
               /\ AttemptSession(Attempts(t)[2]) # entry[t].session
        /\ (session[Self(t)] # entry[t].session) <=> (Rebuilt(t) >= 1)
        /\ Returns(t) => exit[t].session = session[Self(t)]
        /\ (calls[t] >= 2 /\ ~Returns(t)) =>
               entry[t].session = exit[t].session

\* The second call of a thread found the session the first call rebuilt,
\* ran its first attempt on it, rebuilt again and ran the retry, which
\* failed, on the newest session.
C17_Witness ==
    /\ Returns(1)
    /\ calls[1] = 2
    /\ Executes(1) = 2
    /\ AttemptSession(Attempts(1)[1]) = 2
    /\ AttemptSession(Attempts(1)[2]) = 3
    /\ result[1].kind = "read_timeout"
    /\ session[1] = 3

\* C18: two threads in query on one instance, no lock.  A call makes a
\* second session rebuild, and with it a third execution attempt, only
\* after it read the flag as false although it had set it for its retry:
\* the finally clause of the other thread's call had cleared it meanwhile.
C18_SecondRebuildOnOthersReset ==
    \A t \in scope.threads :
        \A k \in RefreshAt(t) :
            (\E j \in RefreshAt(t) : j < k) =>
                /\ trace[t][k - 1][1] = "flag"
                /\ trace[t][k - 1][2] = FALSE
                /\ trace[t][k - 1][3] \in scope.threads \ {t}

\* Thread 1's call has returned after two session rebuilds and three
\* execution attempts; thread 2's call, whose finally clause cleared the
\* flag while thread 1's retry was in flight, has returned too.
C18_Witness ==
    /\ Returns(1)
    /\ Refreshes(1) = 2
    /\ Rebuilt(1) = 2
    /\ Executes(1) = 3
    /\ Returns(2)

====
